---- MODULE Spec2Model ----
(***************************************************************************)
(* BurstFire I2C driver (burstfire_i2c_driver.c / .cpp / .h).              *)
(*                                                                         *)
(* The driver is a process-wide session (g_initialized, g_port) plus a set *)
(* of blocking calls, each of which issues zero or more bus transactions.  *)
(* One action of the model is one whole call of the public API.  The bus   *)
(* driver and the remote ATtiny202 are the environment: every transaction  *)
(* gets an outcome chosen by the environment.                              *)
(*                                                                         *)
(* Three builds of the same API exist in the sources:                      *)
(*   "c"       burstfire_i2c_driver.c   (ESP-IDF)                          *)
(*   "cpp"     burstfire_i2c_driver.cpp (ESP-IDF branch, #ifndef ARDUINO)  *)
(*   "arduino" burstfire_i2c_driver.cpp (#ifdef ARDUINO, Wire library)     *)
(***************************************************************************)
EXTENDS Integers, Sequences, FiniteSets, TLC

VARIABLES
    build,          \* which of the three builds is running (fixed)
    g_initialized,  \* static bool g_initialized
    g_port,         \* static i2c_port_t g_port
    started,        \* ESP-IDF ports whose bus driver is installed
    wire,           \* Arduino: Wire.begin() has been called
    devGrid,        \* remote devices: content of the grid-frequency register
    afterShutdown,  \* history: Shutdown ran on an initialized session and no
                    \* Initialize has succeeded since
    last            \* the call that just returned: inputs, result, transactions

vars == <<build, g_initialized, g_port, started, wire, devGrid, afterShutdown, last>>

----------------------------------------------------------------------------
(* Bounds of the model *)

\* SetDuty is tried with every duty in 0..MaxDutyArg and with 255
MaxDutyArg == 11

\* device addresses the calls are made on: 0x20 .. 0x20 + NumAddrs - 1
NumAddrs == 1

----------------------------------------------------------------------------
(* Program constants *)

BURSTFIRE_REG_DUTY     == 0
BURSTFIRE_REG_MAX_DUTY == 1
BURSTFIRE_REG_GRID_HZ  == 2
BURSTFIRE_REG_FW_MAJOR == 16
BURSTFIRE_REG_FW_MINOR == 17
BURSTFIRE_REG_FW_PATCH == 18
BURSTFIRE_REG_STATUS   == 19
BURSTFIRE_REG_I2C_ADDR == 20

BURSTFIRE_STATUS_RUN   == 1
BURSTFIRE_STATUS_GRID  == 2

\* 0x80, the read-any flag of a register read
READ_ANY == 128

\* duty > 10 is rejected
DUTY_LIMIT == 10

\* for (addr = 0x20; addr <= 0x23; addr++)
SCAN_FIRST == 32
SCAN_LAST  == 35

\* uint8_t
UINT8_MAX == 255

ESP_OK                == "ESP_OK"
ESP_FAIL              == "ESP_FAIL"
ESP_ERR_INVALID_ARG   == "ESP_ERR_INVALID_ARG"
ESP_ERR_INVALID_STATE == "ESP_ERR_INVALID_STATE"
ESP_ERR_TIMEOUT       == "ESP_ERR_TIMEOUT"

Builds == {"c", "cpp", "arduino"}
Ports  == {"I2C_NUM_0", "I2C_NUM_1"}
Addrs  == SCAN_FIRST .. (SCAN_FIRST + NumAddrs - 1)
DutyArgs == (0 .. MaxDutyArg) \cup {UINT8_MAX}

----------------------------------------------------------------------------
(* Bit operations on bytes *)

RECURSIVE BitOr(_, _)
BitOr(a, b) ==
    IF a = 0 THEN b
    ELSE IF b = 0 THEN a
    ELSE (IF a % 2 = 1 \/ b % 2 = 1 THEN 1 ELSE 0) + 2 * BitOr(a \div 2, b \div 2)

RECURSIVE BitAnd(_, _)
BitAnd(a, b) ==
    IF a = 0 \/ b = 0 THEN 0
    ELSE (IF a % 2 = 1 /\ b % 2 = 1 THEN 1 ELSE 0) + 2 * BitAnd(a \div 2, b \div 2)

----------------------------------------------------------------------------
(* The environment: outcomes of one bus transaction *)

\* "ok": acknowledged; "nack": address or data not acknowledged;
\* "timeout": bus busy for 100 ms; "noread": the command byte was taken but the
\* read phase delivered no byte
WriteOutcomes == {"ok", "nack", "timeout"}
ReadOutcomes  == {"ok", "nack", "timeout", "noread"}

\* result of i2c_master_write_to_device / i2c_master_write_read_device
IdfErr(o) ==
    CASE o = "ok"      -> ESP_OK
      [] o = "nack"    -> ESP_FAIL
      [] o = "noread"  -> ESP_FAIL
      [] o = "timeout" -> ESP_ERR_TIMEOUT

\* result of Wire.endTransmission(): 0 success, 2 NACK, 5 timeout
WireEnd(o) ==
    CASE o = "ok"      -> 0
      [] o = "noread"  -> 0
      [] o = "nack"    -> 2
      [] o = "timeout" -> 5

\* result of Wire.requestFrom(addr, 1): the number of bytes received
WireRequest(o) == IF o = "ok" THEN 1 ELSE 0

\* one transaction as the bus driver sees it
Txn(prim, port, addr, data, rlen, o) ==
    [prim |-> prim, port |-> port, addr |-> addr, data |-> data, rlen |-> rlen, res |-> o]

----------------------------------------------------------------------------
(* The remote device (ATtiny202 register map) *)

\* firmware version the devices report, <<major, minor, patch>>
DeviceFirmware == <<1, 2, 3>>

\* the byte the device returns for a read announced by command byte cmd;
\* grid is its grid-frequency register, duty its duty register
DeviceRead(grid, duty, addr, cmd) ==
    IF BitAnd(cmd, READ_ANY) = 0 THEN UINT8_MAX
    ELSE LET reg == cmd % READ_ANY IN
         CASE reg = BURSTFIRE_REG_DUTY     -> duty
           [] reg = BURSTFIRE_REG_MAX_DUTY -> DUTY_LIMIT
           [] reg = BURSTFIRE_REG_GRID_HZ  -> grid
           [] reg = BURSTFIRE_REG_FW_MAJOR -> DeviceFirmware[1]
           [] reg = BURSTFIRE_REG_FW_MINOR -> DeviceFirmware[2]
           [] reg = BURSTFIRE_REG_FW_PATCH -> DeviceFirmware[3]
           [] reg = BURSTFIRE_REG_STATUS   ->
                BURSTFIRE_STATUS_RUN + (IF grid # 0 THEN BURSTFIRE_STATUS_GRID ELSE 0)
           [] reg = BURSTFIRE_REG_I2C_ADDR -> addr
           [] OTHER -> UINT8_MAX

\* the grid-frequency register after the device received the bytes data
DeviceWrite(grid, data) ==
    IF Len(data) = 2 /\ data[1] = BURSTFIRE_REG_GRID_HZ THEN data[2] ELSE grid

\* the grid registers after the transactions of log reached the devices
RECURSIVE ApplyLog(_, _)
ApplyLog(grid, log) ==
    IF log = <<>> THEN grid
    ELSE LET e == Head(log) IN
         ApplyLog(IF e.res = "ok" /\ e.addr \in DOMAIN grid
                  THEN [grid EXCEPT ![e.addr] = DeviceWrite(grid[e.addr], e.data)]
                  ELSE grid,
                  Tail(log))

\* the grid register of the device at addr (0 where the model tracks none)
GridOf(grid, addr) == IF addr \in DOMAIN grid THEN grid[addr] ELSE 0

----------------------------------------------------------------------------
(* Internal helpers of the driver *)

\* the i-th outcome of the environment's script sc; transactions beyond the
\* script are acknowledged
OutcomeAt(sc, i) == IF i <= Len(sc) THEN sc[i] ELSE "ok"

\* write_reg sending the two bytes in the wrong order
write_reg_swapped(bld, port, addr, reg, val, o) ==
    IF bld = "arduino"
    THEN [ret |-> IF WireEnd(o) = 0 THEN ESP_OK ELSE ESP_FAIL,
          log |-> <<Txn("Wire.endTransmission", "Wire", addr, <<val, reg>>, 0, o)>>]
    ELSE [ret |-> IdfErr(o),
          log |-> <<Txn("i2c_master_write_to_device", port, addr, <<val, reg>>, 0, o)>>]

\* write_reg: one write of the two bytes [reg, val]
write_reg(bld, port, addr, reg, val, o) ==
    IF bld = "arduino"
    THEN [ret |-> IF WireEnd(o) = 0 THEN ESP_OK ELSE ESP_FAIL,
          log |-> <<Txn("Wire.endTransmission", "Wire", addr, <<reg, val>>, 0, o)>>]
    ELSE [ret |-> IdfErr(o),
          log |-> <<Txn("i2c_master_write_to_device", port, addr, <<reg, val>>, 0, o)>>]

\* read_reg: write the byte 0x80 | reg, then read one byte into *val (old is
\* the content of *val before the call; dev the addressed device's registers)
read_reg(bld, port, addr, reg, old, o, dev) ==
    LET cmd == BitOr(READ_ANY, reg)
        got == DeviceRead(dev.grid, dev.duty, addr, cmd)
    IN  IF bld = "arduino"
        THEN IF WireEnd(o) # 0
             THEN [ret |-> ESP_FAIL, val |-> old,
                   log |-> <<Txn("Wire.endTransmission", "Wire", addr, <<cmd>>, 0, o)>>]
             ELSE IF WireRequest(o) # 1
             THEN [ret |-> ESP_FAIL, val |-> old,
                   log |-> <<Txn("Wire.endTransmission", "Wire", addr, <<cmd>>, 0, "ok"),
                             Txn("Wire.requestFrom", "Wire", addr, <<>>, 1, o)>>]
             ELSE [ret |-> ESP_OK, val |-> got,
                   log |-> <<Txn("Wire.endTransmission", "Wire", addr, <<cmd>>, 0, "ok"),
                             Txn("Wire.requestFrom", "Wire", addr, <<>>, 1, o)>>]
        ELSE [ret |-> IdfErr(o),
              val |-> IF o = "ok" THEN got ELSE old,
              log |-> <<Txn("i2c_master_write_read_device", port, addr, <<cmd>>, 1, o)>>]

----------------------------------------------------------------------------
(* Public API: device operations.  init and port are g_initialized and      *)
(* g_port at the call; out is the caller's memory behind the output         *)
(* pointers; a null flag says the caller passed NULL.                       *)

\* burstfire_set_duty validating the duty before the session
burstfire_set_duty_argfirst(bld, init, port, addr, duty, o) ==
    IF duty > DUTY_LIMIT THEN [ret |-> ESP_ERR_INVALID_ARG, log |-> <<>>]
    ELSE IF ~init THEN [ret |-> ESP_ERR_INVALID_STATE, log |-> <<>>]
    ELSE write_reg(bld, port, addr, BURSTFIRE_REG_DUTY, duty, o)

\* burstfire_set_duty with the limit off by one
burstfire_set_duty_offbyone(bld, init, port, addr, duty, o) ==
    IF ~init THEN [ret |-> ESP_ERR_INVALID_STATE, log |-> <<>>]
    ELSE IF duty > DUTY_LIMIT + 1 THEN [ret |-> ESP_ERR_INVALID_ARG, log |-> <<>>]
    ELSE write_reg(bld, port, addr, BURSTFIRE_REG_DUTY, duty, o)

burstfire_set_duty(bld, init, port, addr, duty, o) ==
    IF ~init THEN [ret |-> ESP_ERR_INVALID_STATE, log |-> <<>>]
    ELSE IF duty > DUTY_LIMIT THEN [ret |-> ESP_ERR_INVALID_ARG, log |-> <<>>]
    ELSE write_reg(bld, port, addr, BURSTFIRE_REG_DUTY, duty, o)

burstfire_get_duty(bld, init, port, addr, null, out, o, dev) ==
    IF ~init THEN [ret |-> ESP_ERR_INVALID_STATE, log |-> <<>>, out |-> out]
    ELSE IF null THEN [ret |-> ESP_ERR_INVALID_ARG, log |-> <<>>, out |-> out]
    ELSE LET r == read_reg(bld, port, addr, BURSTFIRE_REG_DUTY, out.val, o, dev)
         IN  [ret |-> r.ret, log |-> r.log, out |-> [out EXCEPT !.val = r.val]]

burstfire_set_grid_60hz(bld, init, port, addr, is_60hz, o) ==
    IF ~init THEN [ret |-> ESP_ERR_INVALID_STATE, log |-> <<>>]
    ELSE write_reg(bld, port, addr, BURSTFIRE_REG_GRID_HZ, IF is_60hz THEN 1 ELSE 0, o)

burstfire_get_status(bld, init, port, addr, null, out, o, dev) ==
    IF ~init THEN [ret |-> ESP_ERR_INVALID_STATE, log |-> <<>>, out |-> out]
    ELSE IF null THEN [ret |-> ESP_ERR_INVALID_ARG, log |-> <<>>, out |-> out]
    ELSE LET r == read_reg(bld, port, addr, BURSTFIRE_REG_STATUS, out.val, o, dev)
         IN  [ret |-> r.ret, log |-> r.log, out |-> [out EXCEPT !.val = r.val]]

\* burstfire_is_connected taking only a NACK for an absent device
burstfire_is_connected_nackonly(bld, init, port, addr, o) ==
    IF ~init THEN [ret |-> FALSE, log |-> <<>>]
    ELSE IF bld = "arduino"
    THEN [ret |-> (WireEnd(o) # 2),
          log |-> <<Txn("Wire.endTransmission", "Wire", addr, <<>>, 0, o)>>]
    ELSE [ret |-> (IdfErr(o) # ESP_FAIL),
          log |-> <<Txn("i2c_master_write_to_device", port, addr, <<>>, 0, o)>>]

\* the presence probe: a zero-length write
burstfire_is_connected(bld, init, port, addr, o) ==
    IF ~init THEN [ret |-> FALSE, log |-> <<>>]
    ELSE IF bld = "arduino"
    THEN [ret |-> (WireEnd(o) = 0),
          log |-> <<Txn("Wire.endTransmission", "Wire", addr, <<>>, 0, o)>>]
    ELSE [ret |-> (IdfErr(o) = ESP_OK),
          log |-> <<Txn("i2c_master_write_to_device", port, addr, <<>>, 0, o)>>]

\* the scan loop leaving at the first probe that fails
RECURSIVE ScanLoop_stopearly(_, _, _, _, _, _, _, _)
ScanLoop_stopearly(bld, init, port, addr, i, out, log, sc) ==
    IF addr <= SCAN_LAST
    THEN LET p == burstfire_is_connected(bld, init, port, addr, OutcomeAt(sc, i + 1))
         IN  IF p.ret
             THEN ScanLoop_stopearly(bld, init, port, (addr + 1) % (UINT8_MAX + 1), i + 1,
                                     [out EXCEPT !.addresses[out.count + 1] = addr,
                                                 !.count = (out.count + 1) % (UINT8_MAX + 1)],
                                     log \o p.log, sc)
             ELSE [ret |-> ESP_OK, log |-> log \o p.log, out |-> out]
    ELSE [ret |-> ESP_OK, log |-> log, out |-> out]

\* the for loop of burstfire_scan_devices, from address addr on; i is the
\* number of probes made so far
RECURSIVE ScanLoop(_, _, _, _, _, _, _, _)
ScanLoop(bld, init, port, addr, i, out, log, sc) ==
    IF addr <= SCAN_LAST
    THEN LET p == burstfire_is_connected(bld, init, port, addr, OutcomeAt(sc, i + 1))
         IN  ScanLoop(bld, init, port, (addr + 1) % (UINT8_MAX + 1), i + 1,
                      IF p.ret
                      THEN [out EXCEPT !.addresses[out.count + 1] = addr,
                                       !.count = (out.count + 1) % (UINT8_MAX + 1)]
                      ELSE out,
                      log \o p.log, sc)
    ELSE [ret |-> ESP_OK, log |-> log, out |-> out]

burstfire_scan_devices(bld, init, port, nullAddresses, nullCount, out, sc) ==
    IF ~init THEN [ret |-> ESP_ERR_INVALID_STATE, log |-> <<>>, out |-> out]
    ELSE IF nullAddresses \/ nullCount
    THEN [ret |-> ESP_ERR_INVALID_ARG, log |-> <<>>, out |-> out]
    ELSE ScanLoop(bld, init, port, SCAN_FIRST, 0, [out EXCEPT !.count = 0], <<>>, sc)

\* burstfire_get_firmware_version not returning after a failed major read
burstfire_get_firmware_version_nostop(bld, init, port, addr, null, out, sc, dev) ==
    IF ~init THEN [ret |-> ESP_ERR_INVALID_STATE, log |-> <<>>, out |-> out]
    ELSE IF null THEN [ret |-> ESP_ERR_INVALID_ARG, log |-> <<>>, out |-> out]
    ELSE LET r1 == read_reg(bld, port, addr, BURSTFIRE_REG_FW_MAJOR, out.major,
                            OutcomeAt(sc, 1), dev)
             o1 == [out EXCEPT !.major = r1.val]
             r2 == read_reg(bld, port, addr, BURSTFIRE_REG_FW_MINOR, out.minor,
                            OutcomeAt(sc, 2), dev)
             o2 == [o1 EXCEPT !.minor = r2.val]
             r3 == read_reg(bld, port, addr, BURSTFIRE_REG_FW_PATCH, out.patch,
                            OutcomeAt(sc, 3), dev)
             o3 == [o2 EXCEPT !.patch = r3.val]
         IN  IF r2.ret # ESP_OK
             THEN [ret |-> r2.ret, log |-> r1.log \o r2.log, out |-> o2]
             ELSE [ret |-> r3.ret, log |-> r1.log \o r2.log \o r3.log, out |-> o3]

burstfire_get_firmware_version(bld, init, port, addr, null, out, sc, dev) ==
    IF ~init THEN [ret |-> ESP_ERR_INVALID_STATE, log |-> <<>>, out |-> out]
    ELSE IF null THEN [ret |-> ESP_ERR_INVALID_ARG, log |-> <<>>, out |-> out]
    ELSE LET r1 == read_reg(bld, port, addr, BURSTFIRE_REG_FW_MAJOR, out.major,
                            OutcomeAt(sc, 1), dev)
             o1 == [out EXCEPT !.major = r1.val]
             r2 == read_reg(bld, port, addr, BURSTFIRE_REG_FW_MINOR, out.minor,
                            OutcomeAt(sc, 2), dev)
             o2 == [o1 EXCEPT !.minor = r2.val]
             r3 == read_reg(bld, port, addr, BURSTFIRE_REG_FW_PATCH, out.patch,
                            OutcomeAt(sc, 3), dev)
             o3 == [o2 EXCEPT !.patch = r3.val]
         IN  IF r1.ret # ESP_OK THEN [ret |-> r1.ret, log |-> r1.log, out |-> o1]
             ELSE IF r2.ret # ESP_OK
             THEN [ret |-> r2.ret, log |-> r1.log \o r2.log, out |-> o2]
             ELSE [ret |-> r3.ret, log |-> r1.log \o r2.log \o r3.log, out |-> o3]

\* burstfire_get_device_info keeping connected = true when the firmware read fails
burstfire_get_device_info_norollback(bld, init, port, addr, null, out, sc, dev) ==
    IF ~init THEN [ret |-> ESP_ERR_INVALID_STATE, log |-> <<>>, out |-> out]
    ELSE IF null THEN [ret |-> ESP_ERR_INVALID_ARG, log |-> <<>>, out |-> out]
    ELSE LET p  == burstfire_is_connected(bld, init, port, addr, OutcomeAt(sc, 1))
             i1 == [out EXCEPT !.address = addr, !.connected = p.ret]
         IN  IF i1.connected
             THEN LET f == burstfire_get_firmware_version(bld, init, port, addr, FALSE,
                                                          i1, Tail(sc), dev)
                  IN  IF f.ret # ESP_OK
                      THEN [ret |-> f.ret, log |-> p.log \o f.log, out |-> f.out]
                      ELSE [ret |-> ESP_OK, log |-> p.log \o f.log, out |-> f.out]
             ELSE [ret |-> ESP_OK, log |-> p.log,
                   out |-> [i1 EXCEPT !.major = 0, !.minor = 0, !.patch = 0]]

\* burstfire_get_device_info leaving the version fields alone for an absent device
burstfire_get_device_info_nozero(bld, init, port, addr, null, out, sc, dev) ==
    IF ~init THEN [ret |-> ESP_ERR_INVALID_STATE, log |-> <<>>, out |-> out]
    ELSE IF null THEN [ret |-> ESP_ERR_INVALID_ARG, log |-> <<>>, out |-> out]
    ELSE LET p  == burstfire_is_connected(bld, init, port, addr, OutcomeAt(sc, 1))
             i1 == [out EXCEPT !.address = addr, !.connected = p.ret]
         IN  IF i1.connected
             THEN LET f == burstfire_get_firmware_version(bld, init, port, addr, FALSE,
                                                          i1, Tail(sc), dev)
                  IN  IF f.ret # ESP_OK
                      THEN [ret |-> f.ret, log |-> p.log \o f.log,
                            out |-> [f.out EXCEPT !.connected = FALSE]]
                      ELSE [ret |-> ESP_OK, log |-> p.log \o f.log, out |-> f.out]
             ELSE [ret |-> ESP_OK, log |-> p.log, out |-> i1]

burstfire_get_device_info(bld, init, port, addr, null, out, sc, dev) ==
    IF ~init THEN [ret |-> ESP_ERR_INVALID_STATE, log |-> <<>>, out |-> out]
    ELSE IF null THEN [ret |-> ESP_ERR_INVALID_ARG, log |-> <<>>, out |-> out]
    ELSE LET p  == burstfire_is_connected(bld, init, port, addr, OutcomeAt(sc, 1))
             i1 == [out EXCEPT !.address = addr, !.connected = p.ret]
         IN  IF i1.connected
             THEN LET f == burstfire_get_firmware_version(bld, init, port, addr, FALSE,
                                                          i1, Tail(sc), dev)
                  IN  IF f.ret # ESP_OK
                      THEN [ret |-> f.ret, log |-> p.log \o f.log,
                            out |-> [f.out EXCEPT !.connected = FALSE]]
                      ELSE [ret |-> ESP_OK, log |-> p.log \o f.log, out |-> f.out]
             ELSE [ret |-> ESP_OK, log |-> p.log,
                   out |-> [i1 EXCEPT !.major = 0, !.minor = 0, !.patch = 0]]

----------------------------------------------------------------------------
(* Public API: the session.  s is the session and the bus drivers at the    *)
(* call: [initialized, port, started, wire].  pc, ins and del are the       *)
(* results the bus driver gives for i2c_param_config, i2c_driver_install    *)
(* and i2c_driver_delete.                                                   *)

DrvCall(call, port, res) == [call |-> call, port |-> port, res |-> res]

\* burstfire_init storing the handle before the bus driver is installed
burstfire_init_storefirst(bld, s, cfg, pc, ins) ==
    IF cfg.null
    THEN [ret |-> ESP_ERR_INVALID_ARG, s |-> s, drv |-> <<>>]
    ELSE IF bld = "arduino"
    THEN [ret |-> ESP_OK,
          s   |-> [s EXCEPT !.wire = TRUE, !.port = cfg.port, !.initialized = TRUE],
          drv |-> <<DrvCall("Wire.begin", "Wire", ESP_OK)>>]
    ELSE IF pc # ESP_OK
    THEN [ret |-> pc, s |-> s, drv |-> <<DrvCall("i2c_param_config", cfg.port, pc)>>]
    ELSE IF ins # ESP_OK
    THEN [ret |-> ins, s |-> [s EXCEPT !.port = cfg.port],
          drv |-> <<DrvCall("i2c_param_config", cfg.port, pc),
                    DrvCall("i2c_driver_install", cfg.port, ins)>>]
    ELSE [ret |-> ESP_OK,
          s   |-> [s EXCEPT !.started = @ \cup {cfg.port}, !.port = cfg.port,
                            !.initialized = TRUE],
          drv |-> <<DrvCall("i2c_param_config", cfg.port, pc),
                    DrvCall("i2c_driver_install", cfg.port, ins)>>]

burstfire_init(bld, s, cfg, pc, ins) ==
    IF cfg.null
    THEN [ret |-> ESP_ERR_INVALID_ARG, s |-> s, drv |-> <<>>]
    ELSE IF bld = "arduino"
    THEN [ret |-> ESP_OK,
          s   |-> [s EXCEPT !.wire = TRUE, !.port = cfg.port, !.initialized = TRUE],
          drv |-> <<DrvCall("Wire.begin", "Wire", ESP_OK)>>]
    ELSE IF pc # ESP_OK
    THEN [ret |-> pc, s |-> s, drv |-> <<DrvCall("i2c_param_config", cfg.port, pc)>>]
    ELSE IF ins # ESP_OK
    THEN [ret |-> ins, s |-> s,
          drv |-> <<DrvCall("i2c_param_config", cfg.port, pc),
                    DrvCall("i2c_driver_install", cfg.port, ins)>>]
    ELSE [ret |-> ESP_OK,
          s   |-> [s EXCEPT !.started = @ \cup {cfg.port}, !.port = cfg.port,
                            !.initialized = TRUE],
          drv |-> <<DrvCall("i2c_param_config", cfg.port, pc),
                    DrvCall("i2c_driver_install", cfg.port, ins)>>]

\* the bus drivers after i2c_driver_delete(port) returned del
AfterDelete(st, port, del) == IF del = ESP_OK THEN st \ {port} ELSE st

\* burstfire_i2c_driver.c
burstfire_deinit_c(s, del) ==
    IF ~s.initialized
    THEN [ret |-> ESP_ERR_INVALID_STATE, s |-> s, drv |-> <<>>]
    ELSE [ret |-> del,
          s   |-> [s EXCEPT !.started = AfterDelete(@, s.port, del), !.initialized = FALSE],
          drv |-> <<DrvCall("i2c_driver_delete", s.port, del)>>]

\* burstfire_i2c_driver.cpp, both branches
burstfire_deinit_cpp(bld, s, del) ==
    IF ~s.initialized
    THEN [ret |-> ESP_ERR_INVALID_STATE, s |-> s, drv |-> <<>>]
    ELSE IF bld = "arduino"
    THEN [ret |-> ESP_OK, s |-> [s EXCEPT !.initialized = FALSE], drv |-> <<>>]
    ELSE IF del # ESP_OK
    THEN [ret |-> del, s |-> s, drv |-> <<DrvCall("i2c_driver_delete", s.port, del)>>]
    ELSE [ret |-> ESP_OK,
          s   |-> [s EXCEPT !.started = AfterDelete(@, s.port, del), !.initialized = FALSE],
          drv |-> <<DrvCall("i2c_driver_delete", s.port, del)>>]

burstfire_deinit(bld, s, del) ==
    IF bld = "c" THEN burstfire_deinit_c(s, del) ELSE burstfire_deinit_cpp(bld, s, del)

----------------------------------------------------------------------------
(* Inputs of the calls *)

\* the caller's memory behind the output pointers before a call: values that
\* no call writes, so that a field the call left alone can be told from a
\* field it wrote
PriorOut ==
    [val |-> 170, major |-> 171, minor |-> 172, patch |-> 173,
     addresses |-> <<174, 175, 176, 177>>, count |-> 178, address |-> 179,
     connected |-> TRUE]

\* for the calls that have no output
NoOut ==
    [val |-> 0, major |-> 0, minor |-> 0, patch |-> 0,
     addresses |-> <<0, 0, 0, 0>>, count |-> 0, address |-> 0, connected |-> FALSE]

\* the content of the device's duty register at a GetDuty
DutyRegs == {0, DUTY_LIMIT}

Configs == {[null |-> TRUE, port |-> "I2C_NUM_0"]} \cup {[null |-> FALSE, port |-> p] : p \in Ports}

\* k - 1 acknowledged transactions, then one with outcome o
FailAt(k, o) == [i \in 1 .. k |-> IF i < k THEN "ok" ELSE o]

\* the code stops at the first failing read, so what the environment would have
\* answered after it is never observed
FwScripts ==
    {<<"ok", "ok", "ok">>} \cup {FailAt(k, o) : k \in 1 .. 3, o \in ReadOutcomes \ {"ok"}}

InfoScripts ==
    {<<o>> : o \in WriteOutcomes \ {"ok"}} \cup {<<"ok">> \o sc : sc \in FwScripts}

\* every address probed either acknowledges or fails, with either kind of
\* failure
ScanScripts ==
    UNION {[1 .. (SCAN_LAST - SCAN_FIRST + 1) -> {"ok", f}] : f \in WriteOutcomes \ {"ok"}}

\* a call with a NULL output pointer returns before any transaction: one
\* script is enough for it
AllOk(n) == [i \in 1 .. n |-> "ok"]

WithNull(scripts, n) ==
    {[null |-> FALSE, sc |-> sc] : sc \in scripts} \cup {[null |-> TRUE, sc |-> AllOk(n)]}

\* <<addresses == NULL, count == NULL, script>>
ScanInputs ==
    {<<FALSE, FALSE, sc>> : sc \in ScanScripts}
    \cup {<<TRUE, FALSE, AllOk(1)>>, <<FALSE, TRUE, AllOk(1)>>, <<TRUE, TRUE, AllOk(1)>>}

DeviceOps == {"SetDuty", "GetDuty", "SetGridFrequency", "GetStatus", "IsConnected",
              "ScanDevices", "GetFirmwareVersion", "GetDeviceInfo"}

Session == [initialized |-> g_initialized, port |-> g_port, started |-> started, wire |-> wire]

NoPrev == [valid |-> FALSE, addr |-> 0, val |-> FALSE]

\* the record of a call that returned
Call(op, addr, arg, null, ret, log, drv, pre, post, prev) ==
    [op |-> op, wasInit |-> g_initialized, afterShutdown |-> afterShutdown,
     addr |-> addr, arg |-> arg, null |-> null, ret |-> ret, log |-> log, drv |-> drv,
     pre |-> pre, post |-> post, prev |-> prev]

BoolStr(b) == IF b THEN "true" ELSE "false"

----------------------------------------------------------------------------
(* The state machine *)

Init ==
    /\ build \in Builds
    /\ g_initialized = FALSE
    /\ g_port = "I2C_NUM_0"
    /\ started = {}
    /\ wire = FALSE
    /\ devGrid \in [Addrs -> {0, 1}]
    /\ afterShutdown = FALSE
    /\ last = [op |-> "none", wasInit |-> FALSE, afterShutdown |-> FALSE, addr |-> 0,
               arg |-> 0, null |-> FALSE, ret |-> ESP_OK, log |-> <<>>, drv |-> <<>>,
               pre |-> NoOut, post |-> NoOut, prev |-> NoPrev]

Initialize ==
    \E cfg \in Configs, pc \in {ESP_OK, ESP_ERR_INVALID_ARG}, ins \in {ESP_OK, ESP_FAIL} :
        LET r == burstfire_init(build, Session, cfg, pc, ins) IN
        /\ g_initialized' = r.s.initialized
        /\ g_port' = r.s.port
        /\ started' = r.s.started
        /\ wire' = r.s.wire
        /\ afterShutdown' = IF r.ret = ESP_OK THEN FALSE ELSE afterShutdown
        /\ last' = Call("Initialize", 0, 0, cfg.null, r.ret, <<>>, r.drv, NoOut, NoOut, NoPrev)
        /\ UNCHANGED <<build, devGrid>>

Shutdown ==
    \E del \in {ESP_OK, ESP_FAIL} :
        LET r == burstfire_deinit(build, Session, del) IN
        /\ g_initialized' = r.s.initialized
        /\ g_port' = r.s.port
        /\ started' = r.s.started
        /\ wire' = r.s.wire
        /\ afterShutdown' = IF g_initialized THEN TRUE ELSE afterShutdown
        /\ last' = Call("Shutdown", 0, 0, FALSE, r.ret, <<>>, r.drv, NoOut, NoOut, NoPrev)
        /\ UNCHANGED <<build, devGrid>>

\* what every device operation leaves alone, and what its transactions do to
\* the devices
DeviceOpFrame(log) ==
    /\ devGrid' = ApplyLog(devGrid, log)
    /\ UNCHANGED <<build, g_initialized, g_port, started, wire, afterShutdown>>

SetDuty ==
    \E addr \in Addrs, duty \in DutyArgs, o \in WriteOutcomes :
        LET r == burstfire_set_duty(build, g_initialized, g_port, addr, duty, o) IN
        /\ last' = Call("SetDuty", addr, duty, FALSE, r.ret, r.log, <<>>, NoOut, NoOut, NoPrev)
        /\ DeviceOpFrame(r.log)

GetDuty ==
    \E addr \in Addrs, in \in WithNull({<<o>> : o \in ReadOutcomes}, 1), dv \in DutyRegs :
        LET dev == [grid |-> GridOf(devGrid, addr), duty |-> dv]
            null == in.null
            r == burstfire_get_duty(build, g_initialized, g_port, addr, null, PriorOut,
                                    in.sc[1], dev)
        IN
        /\ last' = Call("GetDuty", addr, dv, null, r.ret, r.log, <<>>, PriorOut, r.out,
                        NoPrev)
        /\ DeviceOpFrame(r.log)

SetGridFrequency ==
    \E addr \in Addrs, is_60hz \in BOOLEAN, o \in WriteOutcomes :
        LET r == burstfire_set_grid_60hz(build, g_initialized, g_port, addr, is_60hz, o) IN
        /\ last' = Call("SetGridFrequency", addr, IF is_60hz THEN 1 ELSE 0, FALSE, r.ret,
                        r.log, <<>>, NoOut, NoOut, NoPrev)
        /\ DeviceOpFrame(r.log)

GetStatus ==
    \E addr \in Addrs, in \in WithNull({<<o>> : o \in ReadOutcomes}, 1) :
        LET dev == [grid |-> GridOf(devGrid, addr), duty |-> 0]
            pre == PriorOut
            null == in.null
            o == in.sc[1]
            r == burstfire_get_status(build, g_initialized, g_port, addr, null, pre, o, dev)
            \* history: the call before this one was a SetGridFrequency that succeeded
            prev == IF last.op = "SetGridFrequency" /\ last.ret = ESP_OK
                    THEN [valid |-> TRUE, addr |-> last.addr, val |-> (last.arg = 1)]
                    ELSE NoPrev
        IN
        /\ last' = Call("GetStatus", addr, 0, null, r.ret, r.log, <<>>, pre, r.out, prev)
        /\ DeviceOpFrame(r.log)

IsConnected ==
    \E addr \in Addrs, o \in WriteOutcomes :
        LET r == burstfire_is_connected(build, g_initialized, g_port, addr, o) IN
        /\ last' = Call("IsConnected", addr, 0, FALSE, BoolStr(r.ret), r.log, <<>>,
                        NoOut, NoOut, NoPrev)
        /\ DeviceOpFrame(r.log)

ScanDevices ==
    \E nulls \in ScanInputs :
        LET r == burstfire_scan_devices(build, g_initialized, g_port, nulls[1], nulls[2],
                                        PriorOut, nulls[3])
        IN
        /\ last' = Call("ScanDevices", 0, 0, nulls[1] \/ nulls[2], r.ret, r.log, <<>>,
                        PriorOut, r.out, NoPrev)
        /\ DeviceOpFrame(r.log)

GetFirmwareVersion ==
    \E addr \in Addrs, in \in WithNull(FwScripts, 3) :
        LET dev == [grid |-> GridOf(devGrid, addr), duty |-> 0]
            pre == PriorOut
            null == in.null
            sc == in.sc
            r == burstfire_get_firmware_version(build, g_initialized, g_port, addr, null,
                                                pre, sc, dev)
        IN
        /\ last' = Call("GetFirmwareVersion", addr, 0, null, r.ret, r.log, <<>>, pre, r.out,
                        NoPrev)
        /\ DeviceOpFrame(r.log)

GetDeviceInfo ==
    \E addr \in Addrs, in \in WithNull(InfoScripts, 4) :
        LET dev == [grid |-> GridOf(devGrid, addr), duty |-> 0]
            pre == PriorOut
            null == in.null
            sc == in.sc
            r == burstfire_get_device_info(build, g_initialized, g_port, addr, null, pre,
                                           sc, dev)
        IN
        /\ last' = Call("GetDeviceInfo", addr, 0, null, r.ret, r.log, <<>>, pre, r.out,
                        NoPrev)
        /\ DeviceOpFrame(r.log)

Next ==
    \/ Initialize
    \/ Shutdown
    \/ SetDuty
    \/ GetDuty
    \/ SetGridFrequency
    \/ GetStatus
    \/ IsConnected
    \/ ScanDevices
    \/ GetFirmwareVersion
    \/ GetDeviceInfo

Spec == Init /\ [][Next]_vars

----------------------------------------------------------------------------
(* Reading the record of a call *)

IsCommandWrite(e) == Len(e.data) = 1

\* the command bytes of the register reads a call made, in order
ReadCmds(log) ==
    LET w == SelectSeq(log, IsCommandWrite) IN [i \in 1 .. Len(w) |-> w[i].data[1]]

IsAcked(e) == e.res = "ok"

\* the addresses whose transaction was acknowledged, in order
AckedAddrs(log) ==
    LET a == SelectSeq(log, IsAcked) IN [i \in 1 .. Len(a) |-> a[i].addr]

\* what the driver returns for a transaction that ended with outcome o
BusResult(o) ==
    IF o = "ok" THEN ESP_OK
    ELSE IF build = "arduino" THEN ESP_FAIL
    ELSE IF o = "timeout" THEN ESP_ERR_TIMEOUT ELSE ESP_FAIL

\* the result every operation gives on a session that is not initialized
NotInitialized(c) ==
    /\ c.ret = IF c.op = "IsConnected" THEN "false" ELSE ESP_ERR_INVALID_STATE
    /\ c.log = <<>>

LastTxn(log) == log[Len(log)]

\* every transaction of log but the last was acknowledged
OnlyLastMayFail(log) == \A i \in 1 .. Len(log) - 1 : log[i].res = "ok"

----------------------------------------------------------------------------
(* Claims *)

\* C1: a device operation called while the session is not initialized fails
\* with ESP_ERR_INVALID_STATE (IsConnected: returns false), whatever its
\* arguments, and makes no bus transaction.
C1_UninitializedFailsFast ==
    (last.op \in DeviceOps /\ ~last.wasInit) => NotInitialized(last)

\* C1 witness: SetDuty with an invalid duty on a session that is not initialized
C1_Witness ==
    /\ last.op = "SetDuty"
    /\ ~last.wasInit
    /\ last.arg > DUTY_LIMIT
    /\ last.ret = ESP_ERR_INVALID_STATE

\* C2: once Shutdown has run on an initialized session, every device operation
\* and every further Shutdown fails as not initialized, without a transaction
\* and without a call of the bus driver, until an Initialize succeeds.
C2_ShutdownClearsSession ==
    (last.afterShutdown /\ last.op \in DeviceOps \cup {"Shutdown"})
        => (NotInitialized(last) /\ last.drv = <<>>)

\* C3 as stated, read in its most favourable case, an initialized session:
\* SetDuty succeeds iff duty <= 10; duty 11 always fails with
\* ESP_ERR_INVALID_ARG; a rejected duty is never written.  (On a session that
\* is not initialized no duty succeeds and duty 11 gives
\* ESP_ERR_INVALID_STATE, see C1.)
C3_SetDutyIffInRange ==
    (last.op = "SetDuty" /\ last.wasInit) =>
        /\ (last.ret = ESP_OK) <=> (last.arg <= DUTY_LIMIT)
        /\ (last.arg = DUTY_LIMIT + 1) => (last.ret = ESP_ERR_INVALID_ARG)
        /\ (last.arg > DUTY_LIMIT) => (last.log = <<>>)

\* C3 amended: on an initialized session SetDuty with duty > 10 fails with
\* ESP_ERR_INVALID_ARG whatever the bus does and writes nothing; with
\* duty <= 10 it makes one write of [0x00, duty] to the address and returns
\* that write's result, so it succeeds iff the write is acknowledged.
C3_SetDutyInitialized ==
    (last.op = "SetDuty" /\ last.wasInit) =>
        IF last.arg > DUTY_LIMIT
        THEN last.ret = ESP_ERR_INVALID_ARG /\ last.log = <<>>
        ELSE /\ Len(last.log) = 1
             /\ last.log[1].addr = last.addr
             /\ last.log[1].data = <<0, last.arg>>
             /\ last.log[1].rlen = 0
             /\ last.ret = BusResult(last.log[1].res)

\* C3 witness: duty 11 rejected on an initialized session
C3_Witness ==
    /\ last.op = "SetDuty"
    /\ last.wasInit
    /\ last.arg = DUTY_LIMIT + 1
    /\ last.ret = ESP_ERR_INVALID_ARG
    /\ last.log = <<>>

\* C4: ScanDevices on an initialized session with non-null outputs probes
\* 0x20, 0x21, 0x22, 0x23 once each in ascending order, whatever the probes
\* answer, returns ESP_OK, stores exactly the acknowledged addresses in
\* ascending order at indices 0..count-1 and leaves the rest of the array
\* alone.
C4_ScanDevices ==
    (last.op = "ScanDevices" /\ last.wasInit /\ ~last.null) =>
        LET found == AckedAddrs(last.log) IN
        /\ last.ret = ESP_OK
        /\ Len(last.log) = 4
        /\ \A i \in 1 .. 4 :
              /\ last.log[i].addr = 31 + i
              /\ last.log[i].data = <<>>
              /\ last.log[i].rlen = 0
        /\ last.post.count = Len(found)
        /\ last.post.count <= 4
        /\ \A i \in 1 .. 4 :
              last.post.addresses[i] =
                  IF i <= Len(found) THEN found[i] ELSE last.pre.addresses[i]

\* C4 witness: only 0x21 and 0x23 acknowledge, the result is [0x21, 0x23], count 2
C4_Witness ==
    /\ last.op = "ScanDevices"
    /\ Len(last.log) = 4
    /\ last.log[1].res # "ok" /\ last.log[2].res = "ok"
    /\ last.log[3].res # "ok" /\ last.log[4].res = "ok"
    /\ last.post.count = 2
    /\ last.post.addresses[1] = 33
    /\ last.post.addresses[2] = 35

\* the probe of a GetDeviceInfo was acknowledged and its read of the
\* firmware-major register failed
MajorReadFailed(c) ==
    /\ c.op = "GetDeviceInfo" /\ c.wasInit /\ ~c.null
    /\ Len(c.log) >= 2
    /\ c.log[1].res = "ok"
    /\ ReadCmds(c.log)[1] = 144
    /\ \/ c.log[2].res # "ok"
       \/ Len(c.log) >= 3 /\ c.log[3].data = <<>> /\ c.log[3].res # "ok"

\* C5: GetDeviceInfo for an address that acknowledges the probe but fails the
\* firmware-major read returns that read's failure, leaves connected = false,
\* reads no further register and leaves the version fields as they were.
C5_InfoMajorReadFails ==
    MajorReadFailed(last) =>
        /\ last.ret # ESP_OK
        /\ last.ret = BusResult(LastTxn(last.log).res)
        /\ last.post.connected = FALSE
        /\ last.post.address = last.addr
        /\ ReadCmds(last.log) = <<144>>
        /\ Len(last.log) <= 3
        /\ last.post.major = last.pre.major
        /\ last.post.minor = last.pre.minor
        /\ last.post.patch = last.pre.patch

\* C5 witness: the major read timed out after an acknowledged probe
C5_Witness ==
    /\ MajorReadFailed(last)
    /\ last.pre.connected
    /\ last.post.major = 171
    /\ LastTxn(last.log).res = "timeout"

\* C6: GetDeviceInfo for an address that does not acknowledge the probe returns
\* ESP_OK with address = the queried address, connected = false and firmware
\* (0, 0, 0), and makes no transaction but the probe.
C6_InfoAbsentDevice ==
    (last.op = "GetDeviceInfo" /\ last.wasInit /\ ~last.null
        /\ Len(last.log) >= 1 /\ last.log[1].res # "ok") =>
        /\ last.ret = ESP_OK
        /\ last.post.address = last.addr
        /\ last.post.connected = FALSE
        /\ last.post.major = 0 /\ last.post.minor = 0 /\ last.post.patch = 0
        /\ Len(last.log) = 1
        /\ last.log[1].data = <<>>

\* C6 witness: the probe was not acknowledged and the snapshot held other values
C6_Witness ==
    /\ last.op = "GetDeviceInfo" /\ last.wasInit /\ ~last.null
    /\ Len(last.log) = 1
    /\ last.log[1].res = "nack"
    /\ last.pre.major = 171
    /\ last.post.major = 0

\* C7: GetFirmwareVersion on an initialized session with non-null outputs reads
\* 0x10, 0x11, 0x12 in that order, each by the command byte register | 0x80,
\* stops at the first read that fails and returns its failure, leaves the
\* outputs of the registers it did not read as they were, and returns ESP_OK
\* iff the three reads succeed.
C7_FirmwareVersion ==
    (last.op = "GetFirmwareVersion" /\ last.wasInit /\ ~last.null) =>
        LET cmds == ReadCmds(last.log)
            n    == Len(cmds)
            ok   == LastTxn(last.log).res = "ok"
            done == IF ok THEN n ELSE n - 1
        IN
        /\ n \in 1 .. 3
        /\ cmds = SubSeq(<<144, 145, 146>>, 1, n)
        /\ \A i \in 1 .. Len(last.log) :
              /\ last.log[i].addr = last.addr
              /\ \/ IsCommandWrite(last.log[i])
                 \/ last.log[i].data = <<>> /\ last.log[i].rlen = 1
        /\ Len(last.log) <= 2 * n
        /\ OnlyLastMayFail(last.log)
        /\ ok => n = 3
        /\ (last.ret = ESP_OK) <=> (n = 3 /\ ok)
        /\ last.ret = BusResult(LastTxn(last.log).res)
        /\ last.post.major = IF done >= 1 THEN DeviceFirmware[1] ELSE last.pre.major
        /\ last.post.minor = IF done >= 2 THEN DeviceFirmware[2] ELSE last.pre.minor
        /\ last.post.patch = IF done >= 3 THEN DeviceFirmware[3] ELSE last.pre.patch

\* C7 witness: the minor read failed after the major read succeeded
C7_Witness ==
    /\ last.op = "GetFirmwareVersion" /\ last.wasInit /\ ~last.null
    /\ ReadCmds(last.log) = <<144, 145>>
    /\ last.ret # ESP_OK
    /\ last.post.major = 1
    /\ last.post.minor = 172
    /\ last.post.patch = 173

\* C8: when a SetGridFrequency(addr, v) that succeeded is followed by a
\* GetStatus(addr) that succeeds, bit 1 of the status read is set iff v is true.
C8_GridRoundTrip ==
    (last.op = "GetStatus" /\ last.prev.valid /\ last.prev.addr = last.addr
        /\ last.ret = ESP_OK) =>
        (((last.post.val \div 2) % 2 = 1) <=> last.prev.val)

\* C8 witness: SetGridFrequency(addr, true), then GetStatus(addr) reads the
\* status with bit 1 set
C8_Witness ==
    /\ last.op = "GetStatus" /\ last.prev.valid /\ last.prev.addr = last.addr
    /\ last.prev.val
    /\ last.ret = ESP_OK
    /\ last.post.val = 3

\* C9: IsConnected on an initialized session makes one zero-length write to the
\* address and returns true iff it is acknowledged, false for every failure;
\* on a session that is not initialized it returns false without a transaction.
C9_IsConnected ==
    last.op = "IsConnected" =>
        /\ last.ret \in {"true", "false"}
        /\ IF last.wasInit
           THEN /\ Len(last.log) = 1
                /\ last.log[1].addr = last.addr
                /\ last.log[1].data = <<>>
                /\ last.log[1].rlen = 0
                /\ (last.ret = "true") <=> (last.log[1].res = "ok")
           ELSE last.ret = "false" /\ last.log = <<>>

\* C9 witness: the probe timed out and IsConnected returned false
C9_Witness ==
    /\ last.op = "IsConnected" /\ last.wasInit
    /\ last.log[1].res = "timeout"
    /\ last.ret = "false"

\* C10: at most one bus driver is started, and while the session is
\* initialized the stored handle names a started bus driver.
C10_SingleSession ==
    /\ Cardinality(started) + (IF wire THEN 1 ELSE 0) <= 1
    /\ g_initialized => (IF build = "arduino" THEN wire ELSE g_port \in started)

\* C11: the initialized flag and the stored bus handle change only in a
\* successful Initialize or in a Shutdown: a failed Initialize and every device
\* operation, whatever it returns, leave both as they were.
C11_SessionFrame ==
    [][(g_initialized' # g_initialized \/ g_port' # g_port)
          => \/ last'.op = "Initialize" /\ last'.ret = ESP_OK
             \/ last'.op = "Shutdown"]_vars

\* C11 witness: on a session initialized on one port, an Initialize for the
\* other port failed in i2c_driver_install and flag and handle are as before
C11_Witness ==
    /\ last.op = "Initialize" /\ last.wasInit /\ ~last.null
    /\ last.ret = ESP_FAIL
    /\ Len(last.drv) = 2
    /\ last.drv[2].call = "i2c_driver_install"
    /\ last.drv[2].port # g_port
    /\ g_initialized

====
